---- MODULE Spec2Model ----
(***************************************************************************)
(* check-and-ping: the scheduler (internal/scheduler/scheduler.go), the    *)
(* alert-state ledger (internal/state/state.go, sqlite.go) and the way     *)
(* they cooperate to deduplicate alerts and to back off failing checks.    *)
(*                                                                         *)
(* Durations are counted in minutes.  Go's int and time.Duration (int64)   *)
(* are two's-complement integers; their widths are scaled down (IntBits,   *)
(* DurBits) so that the wrap-around of 1 << n is reached by the model      *)
(* checker the way the 64-bit program reaches it, after fewer failures.    *)
(***************************************************************************)
EXTENDS Integers, Sequences, FiniteSets, TLC

\* ------------------------------------------------------------------ bounds
\* width of Go's int (64 in the program): 1 << n wraps at n = IntBits - 1
IntBits == 7
\* width of time.Duration (int64 in the program), counted in minutes
DurBits == 14
\* number of Start calls the model has room for
MaxStarts == 2
\* number of checks the host registers
MaxChecks == 2
\* longest failure streak followed while several loops run
MaxStreak == 2

\* ------------------------------------------------------- program constants
maxBackoffMultiplier == 32
\* time.Hour, in minutes
maxBackoffDuration == 60

\* ------------------------------------------------------------- arithmetic
\* x as a two's-complement integer of the given width
Wrap(x, bits) ==
    LET m == 2 ^ bits
        r == x % m
    IN  IF r >= 2 ^ (bits - 1) THEN r - m ELSE r

\* Go's 1 << n on an int: 0 once n reaches the width, wrapping below it
ShiftLeft1(n) == IF n >= IntBits THEN 0 ELSE Wrap(2 ^ n, IntBits)

\* Go's builtin min
Min(a, b) == IF a < b THEN a ELSE b

\* ------------------------------------------------------------ check types
\* CheckResult{ShouldAlert, Title, Message}; Priority, Tags and Metadata
\* have their zero values (PriorityLow, nil, nil)
CheckResult(shouldAlert, title, message) ==
    [ShouldAlert |-> shouldAlert, Title |-> title, Message |-> message,
     Priority |-> "low", Tags |-> {}, Metadata |-> {}]

\* a CheckResult with its Priority, Tags and Metadata set
Labelled(r, priority, tags, metadata) ==
    [r EXCEPT !.Priority = priority, !.Tags = tags, !.Metadata = metadata]

\* the zero CheckResult, held while no result is in hand
NoResult == CheckResult(FALSE, "", "")

\* Check{Name, Interval, Run}: Run is given by the results it can return
\* without error (every Run can also return an error)
Check(name, intervalMin, results) ==
    [Name |-> name, Interval |-> intervalMin, Run |-> results]

\* checks.WebsiteUpCheck("https://example.com")
WebsiteUpCheck ==
    Check("website-example.com", 1,
          { CheckResult(FALSE, "", ""),
            Labelled(CheckResult(TRUE, "Site Down", "example.com is not responding"),
                     "high", {}, {}),
            Labelled(CheckResult(TRUE, "Site Error", "example.com returned status 500"),
                     "high", {}, {}) })

\* checks.BitcoinPriceCheck(100000)
BitcoinPriceCheck ==
    Check("btc-price", 10,
          { CheckResult(FALSE, "", ""),
            Labelled(CheckResult(TRUE, "BTC Alert", "Bitcoin is above $100000"),
                     "normal", {"crypto", "btc"}, {<< "threshold", "100000.00" >>}) })

\* a check of the user whose interval is longer than maxBackoffDuration
NightlyCheck ==
    Check("nightly", 90,
          { CheckResult(FALSE, "", ""),
            CheckResult(TRUE, "Nightly", "nightly job failed") })

\* the checks the host registers, in this order, when it registers several
Catalog == << WebsiteUpCheck, BitcoinPriceCheck >>

\* the checks a host with a single check chooses from
SingleCatalog == { WebsiteUpCheck, BitcoinPriceCheck, NightlyCheck }

\* a check of the user that reports one condition, one title and message,
\* with a priority, tags and metadata that change as the condition lasts
DiskCheck ==
    Check("disk", 5,
          { CheckResult(FALSE, "", ""),
            Labelled(CheckResult(TRUE, "Disk Full", "/var is full"),
                     "normal", {"disk"}, {<< "hours", "1" >>}),
            Labelled(CheckResult(TRUE, "Disk Full", "/var is full"),
                     "urgent", {"disk", "page"}, {<< "hours", "2" >>}) })

\* a check of the user with two conditions whose titles and messages are
\* different and run together to the same text
SplitCheck ==
    Check("split", 5,
          { CheckResult(FALSE, "", ""),
            CheckResult(TRUE, "ab", "c"),
            CheckResult(TRUE, "a", "bc") })

Names == { c.Name : c \in SingleCatalog \cup {DiskCheck, SplitCheck} }

\* ------------------------------------------------------------ alert state
NoRecord == "<none>"

\* state.Hash: the digest of title followed by message.  SHA-256 is taken
\* as collision-free on the strings of the model; the concatenation is real.
Hash(title, message) == "sha256:" \o (title \o message)

\* Memory.ShouldAlert without the comparison of hashes
MemoryShouldAlertAlways(a, checkName, resultHash) == TRUE

\* Memory.ShouldAlert that looks for a record and not at its hash
MemoryShouldAlertIgnoresHash(a, checkName, resultHash) == a[checkName] = NoRecord

\* Memory.ShouldAlert
MemoryShouldAlert(a, checkName, resultHash) ==
    IF a[checkName] = NoRecord THEN TRUE ELSE a[checkName] # resultHash

\* Memory.MarkAlerted (the map after the call; the call returns nil)
MemoryMarkAlerted(a, checkName, resultHash) ==
    [a EXCEPT ![checkName] = resultHash]

\* Memory.Clear without the delete
MemoryClearKeeps(a, checkName) == a

\* Memory.Clear (the map after the call; the call returns nil)
MemoryClear(a, checkName) == [a EXCEPT ![checkName] = NoRecord]

\* SQLite.ShouldAlert with the comparison turned round
SQLiteShouldAlertSameHash(a, checkName, resultHash, dbErr) ==
    IF ~dbErr /\ a[checkName] = NoRecord THEN TRUE
    ELSE IF dbErr THEN TRUE
    ELSE a[checkName] = resultHash

\* SQLite.ShouldAlert that answers false when the read fails
SQLiteShouldAlertFailsClosed(a, checkName, resultHash, dbErr) ==
    IF ~dbErr /\ a[checkName] = NoRecord THEN TRUE
    ELSE IF dbErr THEN FALSE
    ELSE a[checkName] # resultHash

\* SQLite.ShouldAlert: dbErr is a failed QueryRow/Scan other than ErrNoRows
SQLiteShouldAlert(a, checkName, resultHash, dbErr) ==
    IF ~dbErr /\ a[checkName] = NoRecord THEN TRUE
    ELSE IF dbErr THEN TRUE
    ELSE a[checkName] # resultHash

\* SQLite.MarkAlerted whose upsert writes nothing
SQLiteMarkAlertedDropsWrite(a, checkName, resultHash, dbErr) == a

\* SQLite.MarkAlerted whose INSERT leaves an existing row as it is
SQLiteMarkAlertedKeepsFirst(a, checkName, resultHash, dbErr) ==
    IF dbErr \/ a[checkName] # NoRecord THEN a ELSE [a EXCEPT ![checkName] = resultHash]

\* SQLite.MarkAlerted: the table after the call; a failed Exec changes nothing
SQLiteMarkAlerted(a, checkName, resultHash, dbErr) ==
    IF dbErr THEN a ELSE [a EXCEPT ![checkName] = resultHash]

\* SQLite.Clear whose DELETE has no WHERE clause
SQLiteClearAll(a, checkName, dbErr) ==
    IF dbErr THEN a ELSE [n \in DOMAIN a |-> NoRecord]

\* SQLite.Clear: the table after the call; a failed Exec changes nothing
SQLiteClear(a, checkName, dbErr) ==
    IF dbErr THEN a ELSE [a EXCEPT ![checkName] = NoRecord]

\* ---------------------------------------------------------------- backoff
\* executeCheck, error branch: the multiplier after the counter became n
BackoffAfterFailure(n) == Min(ShiftLeft1(n), maxBackoffMultiplier)

\* runCheck without the ceiling of maxBackoffDuration
NextIntervalNoCeiling(base, multiplier) == Wrap(base * multiplier, DurBits)

\* runCheck: the wait before the next execution
NextInterval(base, multiplier) ==
    LET product == Wrap(base * multiplier, DurBits)
    IN  IF product > maxBackoffDuration THEN maxBackoffDuration ELSE product

\* the longest failure streak followed for a single loop: one past the
\* width of int
MaxFailures == IntBits + 1

\* ------------------------------------------------------------------ state
VARIABLES
    checks,              \* Scheduler.checks
    backend,             \* which State the scheduler was built with
    alerts,              \* Memory.alerts / table alert_state: name -> hash
    cancel,              \* Scheduler.cancel: 0 is nil, else the context it cancels
    ctxDone,             \* the contexts that are cancelled
    wg,                  \* Scheduler.wg
    hostPc,              \* where the host is: "new", "started", "stopping", "stopped"
    pc,                  \* where each timing loop is
    loopCheck,           \* the index in checks of the check a loop runs
    loopCtx,             \* the context a loop was started with
    backoffMultiplier,   \* runCheck's local
    consecutiveFailures, \* runCheck's local
    interval,            \* runCheck's local, while the loop is at the select
    timerLive,           \* the select was entered before its context was cancelled
    result,              \* executeCheck's local
    resultHash,          \* executeCheck's local
    lastErr,             \* the call of the invocation that returned an error
    readFailed,          \* the ShouldAlert of the invocation hit a database error
    executed,            \* history: an invocation of this loop has returned
    delivered,           \* history: per name, what Send accepted since the last clear
    lastDelivered,       \* history: per name, what Send accepted last since the last clear
    markFailed,          \* history: per name, MarkAlerted failed after that delivery
    failedSend,          \* history: per loop, the result whose Send failed in the last invocation
    failedOpen,          \* history: that Send followed a failed read of a record with the same hash
    transports,          \* Multi.notifiers, by name; empty when the notifier is a single transport
    lastSend,            \* history: the calls and the errors of the last Multi.Send
    accepted,            \* history: per name, the (transport, result) pairs accepted since the last clear
    lateRuns             \* history: per loop, the invocation was started by a select entered after the cancellation

vars ==
    << checks, backend, alerts, cancel, ctxDone, wg, hostPc, pc, loopCheck,
       loopCtx, backoffMultiplier, consecutiveFailures, interval, timerLive,
       result, resultHash, lastErr, readFailed, executed, delivered,
       lastDelivered, markFailed, failedSend, failedOpen, transports, lastSend,
       accepted, lateRuns >>

MaxLoops == MaxChecks * MaxStarts
LoopIds == 1 .. MaxLoops

\* the loops that have been launched
Launched == { l \in LoopIds : pc[l] # "idle" }

\* the check a launched loop runs
CheckOf(l) == checks[loopCheck[l]]

\* what Multi.Send has done: the transports called, in order, and the
\* transports named in the entries of the error returned
SendReport(calls, errs) == [calls |-> calls, errs |-> errs]

\* scheduler.New followed by the choice of the State implementation
InitScheduler ==
    /\ checks = << >>
    /\ backend \in {"memory", "sqlite"}
    /\ alerts = [n \in Names |-> NoRecord]
    /\ cancel = 0
    /\ ctxDone = {}
    /\ wg = 0
    /\ hostPc = "new"
    /\ pc = [l \in LoopIds |-> "idle"]
    /\ loopCheck = [l \in LoopIds |-> 0]
    /\ loopCtx = [l \in LoopIds |-> 0]
    /\ backoffMultiplier = [l \in LoopIds |-> 0]
    /\ consecutiveFailures = [l \in LoopIds |-> 0]
    /\ interval = [l \in LoopIds |-> 0]
    /\ timerLive = [l \in LoopIds |-> FALSE]
    /\ result = [l \in LoopIds |-> NoResult]
    /\ resultHash = [l \in LoopIds |-> ""]
    /\ lastErr = [l \in LoopIds |-> "nil"]
    /\ readFailed = [l \in LoopIds |-> FALSE]
    /\ executed = [l \in LoopIds |-> FALSE]
    /\ delivered = [n \in Names |-> {}]
    /\ lastDelivered = [n \in Names |-> NoResult]
    /\ markFailed = [n \in Names |-> FALSE]
    /\ failedSend = [l \in LoopIds |-> NoResult]
    /\ failedOpen = [l \in LoopIds |-> FALSE]
    /\ lastSend = SendReport(<< >>, << >>)
    /\ accepted = [n \in Names |-> {}]
    /\ lateRuns = [l \in LoopIds |-> FALSE]

\* a scheduler whose notifier is a single transport
Init ==
    /\ InitScheduler
    /\ transports = << >>

hostVars == << checks, cancel, ctxDone, wg, hostPc >>
loopIdent == << loopCheck, loopCtx >>
backoffVars == << backoffMultiplier, consecutiveFailures >>
selectVars == << interval, timerLive >>
callVars == << result, resultHash, lastErr, readFailed >>
dedupHistory == << delivered, lastDelivered, markFailed >>
retryHistory == << failedSend, failedOpen >>
history == << executed, dedupHistory, retryHistory >>
fanoutVars == << transports, lastSend, accepted >>

\* ------------------------------------------------------------- scheduler
\* Scheduler.Register
Register(c) ==
    /\ checks' = Append(checks, c)
    /\ UNCHANGED << backend, alerts, cancel, ctxDone, wg, hostPc, pc, loopIdent,
                    backoffVars, selectVars, callVars, history >>
    /\ UNCHANGED << fanoutVars, lateRuns >>

\* Scheduler.Start whose goroutines all run the check registered last
StartSharesCheck ==
    LET ctx == cancel + 1
        base == Cardinality(Launched)
        n == Len(checks)
        new == (base + 1) .. (base + n)
    IN  /\ ctx <= MaxStarts
        /\ base + n <= MaxLoops
        /\ cancel' = ctx
        /\ wg' = wg + n
        /\ pc' = [l \in LoopIds |-> IF l \in new THEN "start" ELSE pc[l]]
        /\ loopCheck' = [l \in LoopIds |-> IF l \in new THEN n ELSE loopCheck[l]]
        /\ loopCtx' = [l \in LoopIds |-> IF l \in new THEN ctx ELSE loopCtx[l]]
        /\ UNCHANGED << checks, backend, alerts, ctxDone, backoffVars, selectVars,
                        callVars, history >>
        /\ UNCHANGED << fanoutVars, lateRuns >>

\* Scheduler.Start: a new cancellable context, one goroutine per check
Start ==
    LET ctx == cancel + 1
        base == Cardinality(Launched)
        n == Len(checks)
        new == (base + 1) .. (base + n)
    IN  /\ ctx <= MaxStarts
        /\ base + n <= MaxLoops
        /\ cancel' = ctx
        /\ wg' = wg + n
        /\ pc' = [l \in LoopIds |-> IF l \in new THEN "start" ELSE pc[l]]
        /\ loopCheck' = [l \in LoopIds |-> IF l \in new THEN l - base ELSE loopCheck[l]]
        /\ loopCtx' = [l \in LoopIds |-> IF l \in new THEN ctx ELSE loopCtx[l]]
        /\ UNCHANGED << checks, backend, alerts, ctxDone, backoffVars, selectVars,
                        callVars, history >>
        /\ UNCHANGED << fanoutVars, lateRuns >>

\* Scheduler.Stop that goes to wg.Wait without calling s.cancel
StopWithoutCancel ==
    /\ hostPc' = "stopping"
    /\ UNCHANGED << checks, backend, alerts, cancel, ctxDone, wg, pc, loopIdent,
                    backoffVars, selectVars, callVars, history >>
    /\ UNCHANGED << fanoutVars, lateRuns >>

\* Scheduler.Stop up to wg.Wait: cancel the stored context
StopCancel ==
    /\ ctxDone' = IF cancel # 0 THEN ctxDone \cup {cancel} ELSE ctxDone
    /\ hostPc' = "stopping"
    /\ UNCHANGED << checks, backend, alerts, cancel, wg, pc, loopIdent,
                    backoffVars, selectVars, callVars, history >>
    /\ UNCHANGED << fanoutVars, lateRuns >>

\* Scheduler.Stop without the wg.Wait
StopReturnNoWait ==
    /\ hostPc = "stopping"
    /\ hostPc' = "stopped"
    /\ UNCHANGED << checks, backend, alerts, cancel, ctxDone, wg, pc, loopIdent,
                    backoffVars, selectVars, callVars, history >>
    /\ UNCHANGED << fanoutVars, lateRuns >>

\* Scheduler.Stop: wg.Wait returns once the counter is zero
StopReturn ==
    /\ hostPc = "stopping"
    /\ wg = 0
    /\ hostPc' = "stopped"
    /\ UNCHANGED << checks, backend, alerts, cancel, ctxDone, wg, pc, loopIdent,
                    backoffVars, selectVars, callVars, history >>
    /\ UNCHANGED << fanoutVars, lateRuns >>

\* ------------------------------------------------------------ timing loop
\* State.ShouldAlert of the configured backend
StateShouldAlert(checkName, hash, dbErr) ==
    IF backend = "memory"
    THEN MemoryShouldAlert(alerts, checkName, hash)
    ELSE SQLiteShouldAlert(alerts, checkName, hash, dbErr)

\* State.MarkAlerted of the configured backend: the ledger after the call
StateMarkAlerted(checkName, hash, dbErr) ==
    IF backend = "memory"
    THEN MemoryMarkAlerted(alerts, checkName, hash)
    ELSE SQLiteMarkAlerted(alerts, checkName, hash, dbErr)

\* State.Clear of the configured backend: the ledger after the call
StateClear(checkName, dbErr) ==
    IF backend = "memory"
    THEN MemoryClear(alerts, checkName)
    ELSE SQLiteClear(alerts, checkName, dbErr)

\* only the database can fail; the in-memory map cannot
DbErrs == IF backend = "sqlite" THEN {FALSE, TRUE} ELSE {FALSE}

\* executeCheck returns to runCheck: its locals are gone
Return(l) ==
    /\ pc' = [pc EXCEPT ![l] = "interval"]
    /\ result' = [result EXCEPT ![l] = NoResult]
    /\ resultHash' = [resultHash EXCEPT ![l] = ""]
    /\ readFailed' = [readFailed EXCEPT ![l] = FALSE]
    /\ executed' = [executed EXCEPT ![l] = TRUE]

\* history: the invocation that returns did not end in a failed Send
NoFailedSend(l) ==
    /\ failedSend' = [failedSend EXCEPT ![l] = NoResult]
    /\ failedOpen' = [failedOpen EXCEPT ![l] = FALSE]

\* runCheck that waits for the first interval before it runs the check
LoopBeginWaitsFirst(l) ==
    /\ pc[l] = "start"
    /\ backoffMultiplier' = [backoffMultiplier EXCEPT ![l] = 1]
    /\ consecutiveFailures' = [consecutiveFailures EXCEPT ![l] = 0]
    /\ pc' = [pc EXCEPT ![l] = "interval"]
    /\ UNCHANGED << hostVars, backend, alerts, loopIdent, selectVars, callVars,
                    history >>
    /\ UNCHANGED << fanoutVars, lateRuns >>

\* runCheck up to the first call of executeCheck
LoopBegin(l) ==
    /\ pc[l] = "start"
    /\ backoffMultiplier' = [backoffMultiplier EXCEPT ![l] = 1]
    /\ consecutiveFailures' = [consecutiveFailures EXCEPT ![l] = 0]
    /\ pc' = [pc EXCEPT ![l] = "Run"]
    /\ UNCHANGED << hostVars, backend, alerts, loopIdent, selectVars, callVars,
                    history >>
    /\ UNCHANGED << fanoutVars, lateRuns >>

\* executeCheck whose error branch also clears the check's record
RunErrorClears(l) ==
    /\ pc[l] = "Run"
    /\ consecutiveFailures' =
         [consecutiveFailures EXCEPT ![l] = Wrap(@ + 1, IntBits)]
    /\ backoffMultiplier' =
         [backoffMultiplier EXCEPT ![l] = BackoffAfterFailure(consecutiveFailures'[l])]
    /\ lastErr' = [lastErr EXCEPT ![l] = "Run"]
    /\ alerts' = StateClear(CheckOf(l).Name, FALSE)
    /\ Return(l)
    /\ NoFailedSend(l)
    /\ UNCHANGED << hostVars, backend, loopIdent, selectVars, dedupHistory >>
    /\ UNCHANGED << fanoutVars, lateRuns >>

\* executeCheck whose error branch ends the timing loop
RunErrorExits(l) ==
    /\ pc[l] = "Run"
    /\ consecutiveFailures' =
         [consecutiveFailures EXCEPT ![l] = Wrap(@ + 1, IntBits)]
    /\ backoffMultiplier' =
         [backoffMultiplier EXCEPT ![l] = BackoffAfterFailure(consecutiveFailures'[l])]
    /\ lastErr' = [lastErr EXCEPT ![l] = "Run"]
    /\ pc' = [pc EXCEPT ![l] = "exited"]
    /\ wg' = wg - 1
    /\ executed' = [executed EXCEPT ![l] = TRUE]
    /\ NoFailedSend(l)
    /\ UNCHANGED << checks, cancel, ctxDone, hostPc, backend, alerts, loopIdent,
                    selectVars, result, resultHash, readFailed, dedupHistory >>
    /\ UNCHANGED << fanoutVars, lateRuns >>

\* executeCheck with one backoff multiplier for all the loops
RunErrorSharedBackoff(l) ==
    /\ pc[l] = "Run"
    /\ consecutiveFailures' =
         [consecutiveFailures EXCEPT ![l] = Wrap(@ + 1, IntBits)]
    /\ backoffMultiplier' =
         [m \in LoopIds |->
            IF pc[m] \in {"idle", "exited"} THEN backoffMultiplier[m]
            ELSE BackoffAfterFailure(consecutiveFailures'[l])]
    /\ lastErr' = [lastErr EXCEPT ![l] = "Run"]
    /\ Return(l)
    /\ NoFailedSend(l)
    /\ UNCHANGED << hostVars, backend, alerts, loopIdent, selectVars,
                    dedupHistory >>
    /\ UNCHANGED << fanoutVars, lateRuns >>

\* executeCheck: c.Run returned an error
RunError(l) ==
    /\ pc[l] = "Run"
    /\ consecutiveFailures' =
         [consecutiveFailures EXCEPT ![l] = Wrap(@ + 1, IntBits)]
    /\ backoffMultiplier' =
         [backoffMultiplier EXCEPT ![l] = BackoffAfterFailure(consecutiveFailures'[l])]
    /\ lastErr' = [lastErr EXCEPT ![l] = "Run"]
    /\ Return(l)
    /\ NoFailedSend(l)
    /\ UNCHANGED << hostVars, backend, alerts, loopIdent, selectVars,
                    dedupHistory >>
    /\ UNCHANGED << fanoutVars, lateRuns >>

\* executeCheck that does not reset the backoff on success
RunOkKeepsBackoff(l, res) ==
    /\ pc[l] = "Run"
    /\ result' = [result EXCEPT ![l] = res]
    /\ resultHash' =
         [resultHash EXCEPT ![l] =
            IF res.ShouldAlert THEN Hash(res.Title, res.Message) ELSE ""]
    /\ pc' = [pc EXCEPT ![l] = IF res.ShouldAlert THEN "ShouldAlert" ELSE "Clear"]
    /\ UNCHANGED << hostVars, backend, alerts, loopIdent, backoffVars, selectVars,
                    lastErr, readFailed, history >>
    /\ UNCHANGED << fanoutVars, lateRuns >>

\* executeCheck that hashes the priority together with title and message
RunOkHashesPriority(l, res) ==
    /\ pc[l] = "Run"
    /\ consecutiveFailures' = [consecutiveFailures EXCEPT ![l] = 0]
    /\ backoffMultiplier' = [backoffMultiplier EXCEPT ![l] = 1]
    /\ result' = [result EXCEPT ![l] = res]
    /\ resultHash' =
         [resultHash EXCEPT ![l] =
            IF res.ShouldAlert THEN Hash(res.Title, res.Message \o res.Priority)
            ELSE ""]
    /\ pc' = [pc EXCEPT ![l] = IF res.ShouldAlert THEN "ShouldAlert" ELSE "Clear"]
    /\ UNCHANGED << hostVars, backend, alerts, loopIdent, selectVars, lastErr,
                    readFailed, history >>
    /\ UNCHANGED << fanoutVars, lateRuns >>

\* executeCheck: c.Run returned res and no error
RunOk(l, res) ==
    /\ pc[l] = "Run"
    /\ consecutiveFailures' = [consecutiveFailures EXCEPT ![l] = 0]
    /\ backoffMultiplier' = [backoffMultiplier EXCEPT ![l] = 1]
    /\ result' = [result EXCEPT ![l] = res]
    /\ resultHash' =
         [resultHash EXCEPT ![l] =
            IF res.ShouldAlert THEN Hash(res.Title, res.Message) ELSE ""]
    /\ pc' = [pc EXCEPT ![l] = IF res.ShouldAlert THEN "ShouldAlert" ELSE "Clear"]
    /\ UNCHANGED << hostVars, backend, alerts, loopIdent, selectVars, lastErr,
                    readFailed, history >>
    /\ UNCHANGED << fanoutVars, lateRuns >>

\* executeCheck: the result asks for no alert, s.state.Clear
ClearState(l, dbErr) ==
    /\ pc[l] = "Clear"
    /\ alerts' = StateClear(CheckOf(l).Name, dbErr)
    /\ lastErr' = [lastErr EXCEPT ![l] = IF dbErr THEN "Clear" ELSE "nil"]
    /\ delivered' = [delivered EXCEPT ![CheckOf(l).Name] = {}]
    /\ lastDelivered' = [lastDelivered EXCEPT ![CheckOf(l).Name] = NoResult]
    /\ markFailed' = [markFailed EXCEPT ![CheckOf(l).Name] = FALSE]
    /\ Return(l)
    /\ NoFailedSend(l)
    /\ UNCHANGED << hostVars, backend, loopIdent, backoffVars, selectVars >>
    /\ accepted' = [accepted EXCEPT ![CheckOf(l).Name] = {}]
    /\ UNCHANGED << transports, lastSend, lateRuns >>

\* executeCheck that clears the record of a check when it meets a duplicate
ShouldAlertClearsDuplicate(l, dbErr) ==
    /\ pc[l] = "ShouldAlert"
    /\ IF StateShouldAlert(CheckOf(l).Name, resultHash[l], dbErr)
       THEN /\ pc' = [pc EXCEPT ![l] = "Send"]
            /\ readFailed' = [readFailed EXCEPT ![l] = dbErr]
            /\ UNCHANGED << alerts, result, resultHash, executed, retryHistory >>
       ELSE /\ alerts' = StateClear(CheckOf(l).Name, FALSE)
            /\ Return(l)
            /\ NoFailedSend(l)
    /\ UNCHANGED << hostVars, backend, loopIdent, backoffVars, selectVars,
                    lastErr, dedupHistory >>
    /\ UNCHANGED << fanoutVars, lateRuns >>

\* executeCheck: s.state.ShouldAlert, and the return on a duplicate
ShouldAlert(l, dbErr) ==
    /\ pc[l] = "ShouldAlert"
    /\ IF StateShouldAlert(CheckOf(l).Name, resultHash[l], dbErr)
       THEN /\ pc' = [pc EXCEPT ![l] = "Send"]
            /\ readFailed' = [readFailed EXCEPT ![l] = dbErr]
            /\ UNCHANGED << result, resultHash, executed, retryHistory >>
       ELSE /\ Return(l)
            /\ NoFailedSend(l)
    /\ UNCHANGED << hostVars, backend, alerts, loopIdent, backoffVars,
                    selectVars, lastErr, dedupHistory >>
    /\ UNCHANGED << fanoutVars, lateRuns >>

\* executeCheck that goes on to MarkAlerted when Send has failed
SendAlertMarksOnError(l, sendErr) ==
    /\ pc[l] = "Send"
    /\ pc' = [pc EXCEPT ![l] = "MarkAlerted"]
    /\ lastErr' = [lastErr EXCEPT ![l] = IF sendErr THEN "Send" ELSE "nil"]
    /\ delivered' =
         [delivered EXCEPT ![CheckOf(l).Name] =
            IF sendErr THEN @ ELSE @ \cup {result[l]}]
    /\ lastDelivered' =
         [lastDelivered EXCEPT ![CheckOf(l).Name] = IF sendErr THEN @ ELSE result[l]]
    /\ markFailed' =
         [markFailed EXCEPT ![CheckOf(l).Name] = IF sendErr THEN @ ELSE FALSE]
    /\ UNCHANGED << hostVars, backend, alerts, loopIdent, backoffVars, selectVars,
                    result, resultHash, readFailed, executed, retryHistory >>
    /\ UNCHANGED << fanoutVars, lateRuns >>

\* executeCheck: s.notifier.Send has returned, and the return when it failed
SendOutcome(l, sendErr) ==
    /\ pc[l] = "Send"
    /\ IF sendErr
       THEN /\ lastErr' = [lastErr EXCEPT ![l] = "Send"]
            /\ failedSend' = [failedSend EXCEPT ![l] = result[l]]
            /\ failedOpen' =
                 [failedOpen EXCEPT ![l] =
                    readFailed[l] /\ alerts[CheckOf(l).Name] = resultHash[l]]
            /\ Return(l)
            /\ UNCHANGED dedupHistory
       ELSE /\ pc' = [pc EXCEPT ![l] = "MarkAlerted"]
            /\ delivered' =
                 [delivered EXCEPT ![CheckOf(l).Name] = @ \cup {result[l]}]
            /\ lastDelivered' =
                 [lastDelivered EXCEPT ![CheckOf(l).Name] = result[l]]
            /\ markFailed' = [markFailed EXCEPT ![CheckOf(l).Name] = FALSE]
            /\ UNCHANGED << callVars, executed, retryHistory >>
    /\ UNCHANGED << hostVars, backend, alerts, loopIdent, backoffVars, selectVars >>

\* executeCheck: s.notifier.Send of a single transport
SendAlert(l, sendErr) ==
    /\ SendOutcome(l, sendErr)
    /\ UNCHANGED << fanoutVars, lateRuns >>

\* Multi.Send without the collection of errors: it returns the first one
MultiSendStopsAtFirstError(notifiers, failing) ==
    LET bad == { i \in 1 .. Len(notifiers) : i \in failing }
        first == CHOOSE i \in bad : \A j \in bad : i <= j
    IN  IF bad = {} THEN SendReport(notifiers, << >>)
        ELSE SendReport(SubSeq(notifiers, 1, first), << notifiers[first] >>)

\* Multi.Send, the loop over m.notifiers from position i on: failing holds
\* the positions of the transports whose Send returns an error
RECURSIVE MultiSendFrom(_, _, _, _, _)
MultiSendFrom(notifiers, i, failing, calls, errs) ==
    IF i > Len(notifiers) THEN SendReport(calls, errs)
    ELSE MultiSendFrom(notifiers, i + 1, failing, Append(calls, notifiers[i]),
                       IF i \in failing THEN Append(errs, notifiers[i]) ELSE errs)

\* Multi.Send: the report of its calls; it returns nil when errs is empty
\* and &MultiError{Errors: errs} otherwise
MultiSend(notifiers, failing) == MultiSendFrom(notifiers, 1, failing, << >>, << >>)

\* executeCheck: s.notifier.Send when the notifier is a Multi
SendAlertMulti(l, failing) ==
    LET report == MultiSend(transports, failing)
        ok == { report.calls[i] : i \in (1 .. Len(report.calls)) \ failing }
    IN  /\ Len(transports) > 0
        /\ SendOutcome(l, Len(report.errs) > 0)
        /\ lastSend' = report
        /\ accepted' =
             [accepted EXCEPT ![CheckOf(l).Name] = @ \cup { << t, result[l] >> : t \in ok }]
        /\ UNCHANGED << transports, lateRuns >>

\* executeCheck that counts a failed MarkAlerted as a failure of the check
MarkAlertedBacksOff(l, dbErr) ==
    /\ pc[l] = "MarkAlerted"
    /\ alerts' = StateMarkAlerted(CheckOf(l).Name, resultHash[l], dbErr)
    /\ lastErr' = [lastErr EXCEPT ![l] = IF dbErr THEN "MarkAlerted" ELSE "nil"]
    /\ markFailed' = [markFailed EXCEPT ![CheckOf(l).Name] = dbErr]
    /\ consecutiveFailures' =
         [consecutiveFailures EXCEPT ![l] = IF dbErr THEN Wrap(@ + 1, IntBits) ELSE @]
    /\ backoffMultiplier' =
         [backoffMultiplier EXCEPT ![l] =
            IF dbErr THEN BackoffAfterFailure(consecutiveFailures'[l]) ELSE @]
    /\ Return(l)
    /\ NoFailedSend(l)
    /\ UNCHANGED << hostVars, backend, loopIdent, selectVars, delivered,
                    lastDelivered >>
    /\ UNCHANGED << fanoutVars, lateRuns >>

\* executeCheck: s.state.MarkAlerted after a delivery
MarkAlerted(l, dbErr) ==
    /\ pc[l] = "MarkAlerted"
    /\ alerts' = StateMarkAlerted(CheckOf(l).Name, resultHash[l], dbErr)
    /\ lastErr' = [lastErr EXCEPT ![l] = IF dbErr THEN "MarkAlerted" ELSE "nil"]
    /\ markFailed' = [markFailed EXCEPT ![CheckOf(l).Name] = dbErr]
    /\ Return(l)
    /\ NoFailedSend(l)
    /\ UNCHANGED << hostVars, backend, loopIdent, backoffVars, selectVars,
                    delivered, lastDelivered >>
    /\ UNCHANGED << fanoutVars, lateRuns >>

\* runCheck: the interval of this round, and the select entered
CalcInterval(l) ==
    /\ pc[l] = "interval"
    /\ interval' =
         [interval EXCEPT ![l] = NextInterval(CheckOf(l).Interval, backoffMultiplier[l])]
    /\ timerLive' = [timerLive EXCEPT ![l] = loopCtx[l] \notin ctxDone]
    /\ lastErr' = [lastErr EXCEPT ![l] = "nil"]
    /\ pc' = [pc EXCEPT ![l] = "select"]
    /\ UNCHANGED << hostVars, backend, alerts, loopIdent, backoffVars, result,
                    resultHash, readFailed, history >>
    /\ UNCHANGED << fanoutVars, lateRuns >>

\* runCheck: case <-ctx.Done(), return, and the deferred wg.Done; the
\* locals of the goroutine are gone
SelectDone(l) ==
    /\ pc[l] = "select"
    /\ loopCtx[l] \in ctxDone
    /\ pc' = [pc EXCEPT ![l] = "exited"]
    /\ wg' = wg - 1
    /\ interval' = [interval EXCEPT ![l] = 0]
    /\ timerLive' = [timerLive EXCEPT ![l] = FALSE]
    /\ backoffMultiplier' = [backoffMultiplier EXCEPT ![l] = 0]
    /\ consecutiveFailures' = [consecutiveFailures EXCEPT ![l] = 0]
    /\ NoFailedSend(l)
    /\ UNCHANGED << checks, cancel, ctxDone, hostPc, backend, alerts, loopIdent,
                    callVars, executed, dedupHistory >>
    /\ lateRuns' = [lateRuns EXCEPT ![l] = FALSE]
    /\ UNCHANGED fanoutVars

\* the timer of time.After(interval) can have fired: the context was live
\* when the select was entered, or the wait is not positive
TimerCanFire(l) ==
    \/ loopCtx[l] \notin ctxDone
    \/ timerLive[l]
    \/ interval[l] <= 0

\* runCheck: case <-time.After(interval), the next executeCheck is entered
SelectTimer(l) ==
    /\ pc[l] = "select"
    /\ TimerCanFire(l)
    /\ pc' = [pc EXCEPT ![l] = "Run"]
    /\ interval' = [interval EXCEPT ![l] = 0]
    /\ timerLive' = [timerLive EXCEPT ![l] = FALSE]
    /\ UNCHANGED << hostVars, backend, alerts, loopIdent, backoffVars, callVars,
                    history >>
    /\ lateRuns' = [lateRuns EXCEPT ![l] = loopCtx[l] \in ctxDone /\ ~timerLive[l]]
    /\ UNCHANGED fanoutVars

\* ------------------------------------------------------------------- host
\* the names registered so far
Registered == { checks[i].Name : i \in 1 .. Len(checks) }

\* the host registers checks with distinct names, in catalog order, before Start
HostRegister ==
    \E k \in 1 .. Len(Catalog) :
        /\ hostPc = "new"
        /\ Len(checks) < MaxChecks
        /\ \A j \in k .. Len(Catalog) : Catalog[j].Name \notin Registered
        /\ Register(Catalog[k])

\* the host registers the single check of a scheduler
HostRegisterOne ==
    \E c \in SingleCatalog :
        /\ hostPc = "new"
        /\ Len(checks) = 0
        /\ Register(c)

\* the host calls Start once
HostStart ==
    /\ hostPc = "new"
    /\ Start
    /\ hostPc' = "started"

\* the host calls Stop after Start
HostStop ==
    /\ hostPc = "started"
    /\ StopCancel

\* one step of a timing loop other than a failed c.Run
LoopStep(l) ==
    \/ LoopBegin(l)
    \/ \E res \in CheckOf(l).Run : RunOk(l, res)
    \/ \E dbErr \in DbErrs : ClearState(l, dbErr)
    \/ \E dbErr \in DbErrs : ShouldAlert(l, dbErr)
    \/ \E sendErr \in BOOLEAN : SendAlert(l, sendErr)
    \/ \E dbErr \in DbErrs : MarkAlerted(l, dbErr)
    \/ CalcInterval(l)
    \/ SelectDone(l)
    \/ SelectTimer(l)

\* several checks, each failing in streaks of up to MaxStreak
Next ==
    \/ HostRegister
    \/ HostStart
    \/ HostStop
    \/ StopReturn
    \/ \E l \in Launched : LoopStep(l)
    \/ \E l \in Launched : consecutiveFailures[l] < MaxStreak /\ RunError(l)

Spec == Init /\ [][Next]_vars

\* one check, failing in streaks of up to MaxFailures
NextSingle ==
    \/ HostRegisterOne
    \/ HostStart
    \/ HostStop
    \/ StopReturn
    \/ \E l \in Launched : LoopStep(l)
    \/ \E l \in Launched : consecutiveFailures[l] < MaxFailures /\ RunError(l)

SpecSingle == Init /\ [][NextSingle]_vars

\* one step of a timing loop while the notifier and the state store work
LoopStepWorking(l) ==
    \/ LoopBegin(l)
    \/ \E res \in CheckOf(l).Run : RunOk(l, res)
    \/ ClearState(l, FALSE)
    \/ ShouldAlert(l, FALSE)
    \/ SendAlert(l, FALSE)
    \/ MarkAlerted(l, FALSE)
    \/ CalcInterval(l)
    \/ SelectDone(l)
    \/ SelectTimer(l)

\* one check, a notifier and a state store that return no error
NextWorking ==
    \/ HostRegisterOne
    \/ HostStart
    \/ HostStop
    \/ StopReturn
    \/ \E l \in Launched : LoopStepWorking(l)
    \/ \E l \in Launched : consecutiveFailures[l] < MaxStreak /\ RunError(l)

SpecWorking == Init /\ [][NextWorking]_vars

\* ------------------------------------------------------ fair scheduling
\* executeCheck: c.Run returned an error after more failures in a row than
\* int has bits.  1 << n is 0 for every such n, so every further failure
\* leaves the multiplier at 0; the counter is followed no further.
RunErrorBeyond(l) ==
    /\ pc[l] = "Run"
    /\ consecutiveFailures[l] = MaxFailures
    /\ backoffMultiplier' =
         [backoffMultiplier EXCEPT ![l] = BackoffAfterFailure(consecutiveFailures[l] + 1)]
    /\ lastErr' = [lastErr EXCEPT ![l] = "Run"]
    /\ Return(l)
    /\ NoFailedSend(l)
    /\ UNCHANGED << hostVars, backend, alerts, loopIdent, selectVars,
                    consecutiveFailures, dedupHistory >>
    /\ UNCHANGED << fanoutVars, lateRuns >>

\* one step of a launched timing loop, c.Run failing as often as it likes
LoopNext(l) ==
    /\ l \in Launched
    /\ \/ LoopStep(l)
       \/ consecutiveFailures[l] < MaxFailures /\ RunError(l)
       \/ RunErrorBeyond(l)

\* runCheck's select takes the case of ctx.Done
LoopSeesDone(l) == l \in Launched /\ SelectDone(l)

\* one check whose Run can fail for ever
NextSingleFair ==
    \/ HostRegisterOne
    \/ HostStart
    \/ HostStop
    \/ StopReturn
    \/ \E l \in LoopIds : LoopNext(l)

\* Every call a loop makes returns and every goroutine is scheduled (weak
\* fairness of the loops and of Stop's wg.Wait).  A select with several
\* ready cases chooses among them at random, so the case of ctx.Done, ready
\* at every select after the cancellation, is taken in the end (strong
\* fairness).
SpecSingleFair ==
    /\ Init
    /\ [][NextSingleFair]_vars
    /\ \A l \in LoopIds : WF_vars(LoopNext(l)) /\ SF_vars(LoopSeesDone(l))
    /\ WF_vars(StopReturn)

\* one step of the loop of a check other than the one registered first
OtherLoopNext(l) ==
    /\ l \in Launched
    /\ loopCheck[l] # 1
    /\ \/ LoopStep(l)
       \/ consecutiveFailures[l] < MaxStreak /\ RunError(l)

\* the checks of a host that registers a slow check of its own before a
\* check of the examples
PairCatalog == << NightlyCheck, BitcoinPriceCheck >>

\* the host registers the checks of PairCatalog, in this order, before Start
HostRegisterPair ==
    /\ hostPc = "new"
    /\ Len(checks) < Len(PairCatalog)
    /\ Len(checks) < MaxChecks
    /\ Register(PairCatalog[Len(checks) + 1])

NextPair ==
    \/ HostRegisterPair
    \/ HostStart
    \/ HostStop
    \/ StopReturn
    \/ \E l \in Launched : LoopStep(l)
    \/ \E l \in Launched : consecutiveFailures[l] < MaxStreak /\ RunError(l)

\* Several checks.  The calls of the check registered first may never
\* return (no fairness for its loop); the calls of the others return and
\* their goroutines are scheduled.
SpecOthersFair ==
    /\ Init
    /\ [][NextPair]_vars
    /\ \A l \in LoopIds : WF_vars(OtherLoopNext(l))

\* the host registers the check whose results differ in their labels only
HostRegisterDisk ==
    /\ hostPc = "new"
    /\ Len(checks) = 0
    /\ Register(DiskCheck)

\* one check whose alerting results share title and message
NextDisk ==
    \/ HostRegisterDisk
    \/ HostStart
    \/ HostStop
    \/ StopReturn
    \/ \E l \in Launched : LoopStep(l)
    \/ \E l \in Launched : consecutiveFailures[l] < MaxStreak /\ RunError(l)

SpecDisk == Init /\ [][NextDisk]_vars

\* ----------------------------------------------------- fan-out notifier
\* the Multi notifiers a host builds from the transports it has configured
MultiConfigs == { << "ntfy", "twilio" >>, << "ntfy", "twilio", "sendgrid" >> }

\* a scheduler whose notifier is NewMulti(...)
InitMulti ==
    /\ InitScheduler
    /\ transports \in MultiConfigs

\* one step of a timing loop whose notifier is a Multi; the state store works
LoopStepMulti(l) ==
    \/ LoopBegin(l)
    \/ \E res \in CheckOf(l).Run : RunOk(l, res)
    \/ ClearState(l, FALSE)
    \/ ShouldAlert(l, FALSE)
    \/ \E failing \in SUBSET (1 .. Len(transports)) : SendAlertMulti(l, failing)
    \/ MarkAlerted(l, FALSE)
    \/ CalcInterval(l)
    \/ SelectDone(l)
    \/ SelectTimer(l)

\* one check, a fan-out notifier whose transports can fail
NextMulti ==
    \/ HostRegisterOne
    \/ HostStart
    \/ HostStop
    \/ StopReturn
    \/ \E l \in Launched : LoopStepMulti(l)
    \/ \E l \in Launched : consecutiveFailures[l] < MaxStreak /\ RunError(l)

SpecMulti == InitMulti /\ [][NextMulti]_vars

\* the host registers the check whose conditions run together
HostRegisterSplit ==
    /\ hostPc = "new"
    /\ Len(checks) = 0
    /\ Register(SplitCheck)

\* one check, a notifier and a state store that return no error
NextSplit ==
    \/ HostRegisterSplit
    \/ HostStart
    \/ HostStop
    \/ StopReturn
    \/ \E l \in Launched : LoopStepWorking(l)
    \/ \E l \in Launched : consecutiveFailures[l] < MaxStreak /\ RunError(l)

SpecSplit == Init /\ [][NextSplit]_vars

\* the host calls Start again on a scheduler that is running
HostStartAgain ==
    /\ hostPc = "started"
    /\ Start
    /\ hostPc' = hostPc

\* one check, Start called once or more before Stop
NextRestart ==
    \/ HostRegisterOne
    \/ HostStart
    \/ HostStartAgain
    \/ HostStop
    \/ StopReturn
    \/ \E l \in Launched : LoopStepWorking(l)
    \/ \E l \in Launched : consecutiveFailures[l] < MaxStreak /\ RunError(l)

SpecRestart == Init /\ [][NextRestart]_vars

\* the host registers the same check, so the same identifier, more than once
HostRegisterTwin ==
    /\ hostPc = "new"
    /\ Len(checks) < MaxChecks
    /\ Register(BitcoinPriceCheck)

\* checks that share an identifier, a notifier and a state store that
\* return no error
NextTwins ==
    \/ HostRegisterTwin
    \/ HostStart
    \/ HostStop
    \/ StopReturn
    \/ \E l \in Launched : LoopStepWorking(l)
    \/ \E l \in Launched : consecutiveFailures[l] < MaxStreak /\ RunError(l)

SpecTwins == Init /\ [][NextTwins]_vars

\* ----------------------------------------------------------------- claims
\* the name of the check a launched loop runs
NameOf(l) == CheckOf(l).Name

\* a step in which the notifier accepts the alert of loop l
SendAccepted(l) == pc[l] = "Send" /\ pc'[l] = "MarkAlerted"

C2_HandedOnlyIfNotRecorded ==
    \A l \in Launched :
        pc[l] = "Send" =>
            \/ alerts[NameOf(l)] = NoRecord
            \/ alerts[NameOf(l)] # resultHash[l]

\* C2, amended: when an alert with hash h is handed to the notifier, the
\* ledger holds no record for the check or a record with another hash,
\* unless the durable backend's read failed in this invocation.
C2_HandedOnlyIfNotRecordedOrReadFailed ==
    \A l \in Launched :
        pc[l] = "Send" =>
            \/ alerts[NameOf(l)] = NoRecord
            \/ alerts[NameOf(l)] # resultHash[l]
            \/ backend = "sqlite" /\ readFailed[l]

\* C2 witness: an alert is handed to the notifier after a successful durable
\* read found a record with another hash
C2_Witness ==
    \E l \in Launched :
        /\ pc[l] = "Send"
        /\ backend = "sqlite"
        /\ ~readFailed[l]
        /\ alerts[NameOf(l)] # NoRecord

\* a step taken by loop l
Steps(l) == pc'[l] # pc[l]

C4_FailedSendIsRetried ==
    [][\A l \in LoopIds :
         /\ (pc[l] = "Send" /\ lastErr'[l] = "Send")
              => pc'[l] = "interval" /\ alerts' = alerts
         /\ (pc[l] = "ShouldAlert" /\ Steps(l) /\ failedSend[l] = result[l])
              => pc'[l] = "Send"]_vars

\* C4, amended: a failed Send returns without MarkAlerted and leaves the
\* ledger unchanged, and the next execution of the check, when it returns
\* the same title and message, gets to Send again, unless the failed Send
\* followed a failed ShouldAlert read of a record that already held the hash.
C4_FailedSendIsRetriedUnlessRecorded ==
    [][\A l \in LoopIds :
         /\ (pc[l] = "Send" /\ lastErr'[l] = "Send")
              => pc'[l] = "interval" /\ alerts' = alerts
         /\ (pc[l] = "ShouldAlert" /\ Steps(l) /\ failedSend[l] = result[l]
                /\ ~failedOpen[l])
              => pc'[l] = "Send"]_vars

\* C4 witness: after a failed Send the same result is handed to Send again
C4_Witness ==
    \E l \in Launched :
        /\ pc[l] = "Send"
        /\ failedSend[l] = result[l]
        /\ ~failedOpen[l]

\* C5: an execution that returns an error increments the failure counter,
\* returns at once (no ShouldAlert, MarkAlerted, Clear or Send) and leaves
\* every record of the ledger unchanged.
C5_ErrorTouchesNoAlertState ==
    [][\A l \in LoopIds :
         (pc[l] = "Run" /\ lastErr'[l] = "Run") =>
            /\ consecutiveFailures'[l] = consecutiveFailures[l] + 1
            /\ pc'[l] = "interval"
            /\ alerts' = alerts
            /\ delivered' = delivered]_vars

\* C5 witness: a check with a record has just returned an error
C5_Witness ==
    \E l \in Launched :
        /\ pc[l] = "interval"
        /\ lastErr[l] = "Run"
        /\ alerts[NameOf(l)] # NoRecord

\* the loop is between two executions
Between(l) == pc[l] \in {"interval", "select"}

\* C6, as stated: after the N-th failure in a row the multiplier is
\* min(2^N, 32) and lies in 1..32, and the wait chosen is
\* min(baseInterval * multiplier, 1 hour), however long the streak.
C6_MultiplierIsMinPow2 ==
    \A l \in Launched :
        (Between(l) /\ consecutiveFailures[l] >= 1) =>
            /\ backoffMultiplier[l] = Min(2 ^ consecutiveFailures[l], 32)
            /\ backoffMultiplier[l] \in 1 .. 32
            /\ pc[l] = "select" =>
                 interval[l] = Min(CheckOf(l).Interval * backoffMultiplier[l], 60)

\* C7: once c.Run has returned without error the backoff state is (0, 1),
\* through the rest of the invocation (clear, suppression, delivery, and
\* their errors) and when it returns, whatever the streak before.
C7_SuccessResetsBackoff ==
    \A l \in Launched :
        (\/ pc[l] \in {"Clear", "ShouldAlert", "Send", "MarkAlerted"}
         \/ pc[l] = "interval" /\ lastErr[l] # "Run")
        => consecutiveFailures[l] = 0 /\ backoffMultiplier[l] = 1

\* C7 witness: a loop is about to execute after the longest streak followed,
\* its multiplier wrapped to 0; its next return without error resets both
C7_Witness ==
    \E l \in Launched :
        /\ pc[l] = "Run"
        /\ consecutiveFailures[l] = MaxFailures
        /\ backoffMultiplier[l] = 0

C9_RunsBeforeFirstWait ==
    \A l \in Launched : pc[l] \in {"interval", "select", "exited"} => executed[l]

\* C9 witness: a loop at its select, its first invocation behind it
C9_Witness ==
    \E l \in Launched : pc[l] = "select" /\ executed[l] /\ hostPc = "started"

\* C10: Stop returns only when every timing loop has exited, and after it
\* has returned no loop takes a step (no execution is invoked).
C10_StopWaitsForLoops ==
    [][/\ hostPc' = "stopped" => \A l \in Launched : pc'[l] = "exited"
       /\ hostPc = "stopped" => pc' = pc]_vars

\* C10 witness: Stop has returned in a scheduler with two checks
C10_Witness ==
    /\ hostPc = "stopped"
    /\ Cardinality(Launched) = 2
    /\ \A l \in Launched : pc[l] = "exited" /\ executed[l]

\* C11: after Start and then Stop, when every call a loop makes returns and
\* the loops are scheduled fairly, every timing loop exits and Stop returns,
\* whether a loop was waiting or executing when the context was cancelled.
C11_StopTerminates ==
    (hostPc = "stopping") ~>
        (hostPc = "stopped" /\ \A l \in Launched : pc[l] = "exited")

\* C11 witness: the context is cancelled while a loop is inside an
\* invocation, after a streak that has driven its multiplier to 0
C11_Witness ==
    \E l \in Launched :
        /\ hostPc = "stopping"
        /\ loopCtx[l] \in ctxDone
        /\ pc[l] = "Run"
        /\ backoffMultiplier[l] = 0

\* the loop is inside an invocation of executeCheck
InFlight(l) == pc[l] \in {"Run", "Clear", "ShouldAlert", "Send", "MarkAlerted"}

\* C12: a timing loop exits only when its context has been cancelled.  A
\* call that returns an error (c.Run, Send, MarkAlerted, Clear) and a
\* suppressed duplicate take the loop back to its wait, from which, the
\* context not cancelled, it executes again; no step of a loop moves or
\* stops the loop of another check.
C12_OnlyCancellationEndsALoop ==
    [][\A l \in LoopIds :
         /\ (pc[l] # "exited" /\ pc'[l] = "exited") => loopCtx[l] \in ctxDone
         /\ (Steps(l) /\ lastErr'[l] # "nil") => pc'[l] = "interval"
         /\ (Steps(l) /\ pc[l] = "ShouldAlert" /\ pc'[l] # "Send")
              => pc'[l] = "interval"
         /\ (Steps(l) /\ pc[l] = "interval") => pc'[l] = "select"
         /\ (Steps(l) /\ pc[l] = "select" /\ loopCtx[l] \notin ctxDone)
              => pc'[l] = "Run"
         /\ (Steps(l) /\ pc[l] # "idle")
              => \A m \in LoopIds \ {l} : pc'[m] = pc[m]]_vars

\* C12 witness: before any cancellation a loop executes again after its
\* check returned an error, while the loop of another check, its Send
\* having failed, is on its way to the next wait
C12_Witness ==
    \E l, m \in Launched :
        /\ l # m
        /\ hostPc = "started"
        /\ pc[l] = "Run"
        /\ consecutiveFailures[l] >= 1
        /\ pc[m] = "interval"
        /\ lastErr[m] = "Send"

\* C13: every registered check has at most one timing loop, so at most one
\* invocation in flight, and a loop enters an invocation only from its
\* start or from its select, after the invocation before has returned and
\* the timer of the wait has fired.
C13_OneInvocationInFlight ==
    [][/\ \A i \in 1 .. Len(checks') :
            Cardinality({ l \in LoopIds :
                            loopCheck'[l] = i /\ pc'[l] \notin {"idle", "exited"} }) <= 1
       /\ \A l \in LoopIds :
            (pc[l] # "Run" /\ pc'[l] = "Run") =>
                \/ pc[l] = "start" /\ ~executed[l]
                \/ pc[l] = "select" /\ executed[l] /\ TimerCanFire(l)]_vars

\* C13 witness: two checks are in flight together, each in a later
\* invocation of its own loop
C13_Witness ==
    \E l, m \in Launched :
        /\ loopCheck[l] # loopCheck[m]
        /\ InFlight(l) /\ executed[l]
        /\ InFlight(m) /\ executed[m]

\* C14: a step of one timing loop leaves the failure counter, the
\* multiplier and the chosen wait of every other loop as they were; and
\* while the calls of one check do not return, the loop of every other
\* check, as long as the context is not cancelled, goes from each returned
\* invocation to the next one.
C14_LoopsAreIndependent ==
    /\ [][\A l \in LoopIds :
            (Steps(l) /\ pc[l] # "idle") =>
                \A m \in LoopIds \ {l} :
                    /\ consecutiveFailures'[m] = consecutiveFailures[m]
                    /\ backoffMultiplier'[m] = backoffMultiplier[m]
                    /\ interval'[m] = interval[m]]_vars
    /\ \A m \in LoopIds :
            (hostPc = "started" /\ loopCheck[m] > 1 /\ pc[m] = "interval")
                ~> (hostPc # "started" \/ pc[m] = "Run")

\* C14 witness: the first invocation of one check has not returned while
\* the loop of another check, having failed, waits longer than its interval
C14_Witness ==
    \E l, m \in Launched :
        /\ hostPc = "started"
        /\ loopCheck[l] = 1 /\ pc[l] = "Run" /\ ~executed[l]
        /\ loopCheck[m] # 1 /\ pc[m] = "select"
        /\ interval[m] > CheckOf(m).Interval

\* C15, as stated: ShouldAlert(c, h) returns true exactly when the ledger
\* has no record for c or the hash recorded for c differs from h, and it
\* leaves the ledger as it was.
C15_ShouldAlertIffNotRecorded ==
    [][\A l \in LoopIds :
         (pc[l] = "ShouldAlert" /\ Steps(l)) =>
            /\ (pc'[l] = "Send") <=>
                  (\/ alerts[NameOf(l)] = NoRecord
                   \/ alerts[NameOf(l)] # resultHash[l])
            /\ alerts' = alerts]_vars

\* C15, amended: ShouldAlert(c, h) returns true exactly when the ledger has
\* no record for c, or the hash recorded for c differs from h, or the read
\* of the durable backend failed; it leaves the ledger as it was.
C15_ShouldAlertIffNotRecordedOrReadFailed ==
    [][\A l \in LoopIds :
         (pc[l] = "ShouldAlert" /\ Steps(l)) =>
            /\ (pc'[l] = "Send") <=>
                  (\/ alerts[NameOf(l)] = NoRecord
                   \/ alerts[NameOf(l)] # resultHash[l]
                   \/ backend = "sqlite" /\ readFailed'[l])
            /\ alerts' = alerts]_vars

\* C15 witness: ShouldAlert is about to be asked for a hash while the
\* ledger records another hash for the check
C15_Witness ==
    \E l \in Launched :
        /\ pc[l] = "ShouldAlert"
        /\ alerts[NameOf(l)] # NoRecord
        /\ alerts[NameOf(l)] # resultHash[l]

\* C16: when the read of the durable backend fails, ShouldAlert returns
\* true whatever the identifier and the hash: the step of executeCheck with
\* a failed read can only go on to Send, and it leaves the records as they
\* were.
C16_FailedReadFailsOpen ==
    \A l \in Launched :
        (pc[l] = "ShouldAlert" /\ backend = "sqlite") =>
            /\ \A n \in Names :
                 SQLiteShouldAlert(alerts, n, resultHash[l], TRUE)
            /\ ENABLED (ShouldAlert(l, TRUE) /\ pc'[l] = "Send" /\ alerts' = alerts)
            /\ ~ ENABLED (ShouldAlert(l, TRUE)
                            /\ (pc'[l] # "Send" \/ alerts' # alerts))

\* C16 witness: an alert whose hash is the recorded one has got to Send
\* because the read failed, the record untouched
C16_Witness ==
    \E l \in Launched :
        /\ pc[l] = "Send"
        /\ readFailed[l]
        /\ alerts[NameOf(l)] = resultHash[l]

\* C17: the ledger holds at most one record for an identifier (it is a map
\* from identifiers to hashes).  A successful MarkAlerted(c, h) makes h the
\* record of c, a successful Clear(c) leaves c without a record, also when
\* it had none, both leave the record of every other identifier as it was,
\* and nothing else changes the ledger: the record of c is the hash of the
\* last successful MarkAlerted(c, _) with no successful Clear(c) after it.
C17_LedgerIsLastWriterWins ==
    [][/\ \A l \in LoopIds :
            /\ (pc[l] = "MarkAlerted" /\ Steps(l) /\ lastErr'[l] = "nil")
                 => alerts' = [alerts EXCEPT ![NameOf(l)] = resultHash[l]]
            /\ (pc[l] = "Clear" /\ Steps(l) /\ lastErr'[l] = "nil")
                 => alerts' = [alerts EXCEPT ![NameOf(l)] = NoRecord]
            /\ (pc[l] = "Clear" /\ Steps(l) /\ alerts[NameOf(l)] = NoRecord)
                 => alerts' = alerts
       /\ alerts' # alerts =>
            \E l \in LoopIds :
                pc[l] \in {"MarkAlerted", "Clear"} /\ Steps(l) /\ lastErr'[l] = "nil"
       /\ DOMAIN alerts' = Names]_vars

\* C17 witness: the record of one identifier has been overwritten by a
\* second MarkAlerted while another identifier holds its own record
C17_Witness ==
    \E l \in Launched :
        /\ pc[l] = "interval"
        /\ Cardinality(delivered[NameOf(l)]) = 2
        /\ alerts[NameOf(l)] =
             Hash(lastDelivered[NameOf(l)].Title, lastDelivered[NameOf(l)].Message)
        /\ \E n \in Names \ {NameOf(l)} : alerts[n] # NoRecord

\* the two results are the same alert condition: same title, same message
SameCondition(r1, r2) ==
    r1.ShouldAlert /\ r2.ShouldAlert /\ r1.Title = r2.Title /\ r1.Message = r2.Message

\* C18, as stated: an alerting result with the title and message of the
\* result delivered and recorded last, whatever its priority, tags and
\* metadata, has the recorded hash and is suppressed: no Send, no write.
C18_LabelsDoNotMatter ==
    [][\A l \in LoopIds :
         (/\ pc[l] = "ShouldAlert" /\ Steps(l)
          /\ SameCondition(lastDelivered[NameOf(l)], result[l])
          /\ ~markFailed[NameOf(l)])
         => /\ resultHash[l] = alerts[NameOf(l)]
            /\ pc'[l] = "interval"
            /\ alerts' = alerts
            /\ delivered' = delivered]_vars

\* C18, amended: an alerting result with the title and message of the
\* result delivered and recorded last, whatever its priority, tags and
\* metadata, has the recorded hash, and it is suppressed (no Send, no
\* write) unless the read of the durable backend fails, when it goes to Send.
C18_LabelsDoNotMatterUnlessReadFailed ==
    [][\A l \in LoopIds :
         (/\ pc[l] = "ShouldAlert" /\ Steps(l)
          /\ SameCondition(lastDelivered[NameOf(l)], result[l])
          /\ ~markFailed[NameOf(l)])
         => /\ resultHash[l] = alerts[NameOf(l)]
            /\ alerts' = alerts
            /\ delivered' = delivered
            /\ \/ pc'[l] = "interval"
               \/ backend = "sqlite" /\ readFailed'[l] /\ pc'[l] = "Send"]_vars

\* C18 witness: after a result was delivered and recorded the check returns
\* the same title and message with another priority, other tags and metadata
C18_Witness ==
    \E l \in Launched :
        /\ pc[l] = "ShouldAlert"
        /\ SameCondition(lastDelivered[NameOf(l)], result[l])
        /\ ~markFailed[NameOf(l)]
        /\ lastDelivered[NameOf(l)].Priority # result[l].Priority
        /\ lastDelivered[NameOf(l)].Tags # result[l].Tags
        /\ lastDelivered[NameOf(l)].Metadata # result[l].Metadata

\* C19, as stated: an alerting result whose hash is the one recorded for
\* its check is suppressed: the invocation returns without a call of the
\* notifier, of MarkAlerted or of Clear, the ledger and what has been
\* delivered are as before, and the backoff state is the reset one.
C19_DuplicateIsSuppressed ==
    [][\A l \in LoopIds :
         (pc[l] = "ShouldAlert" /\ Steps(l) /\ alerts[NameOf(l)] = resultHash[l])
         => /\ pc'[l] = "interval"
            /\ alerts' = alerts
            /\ delivered' = delivered
            /\ consecutiveFailures'[l] = 0 /\ backoffMultiplier'[l] = 1]_vars

\* C19, amended: an alerting result whose hash is the one recorded for its
\* check is suppressed as in C19 when the ShouldAlert read succeeds; when
\* the read of the durable backend fails the invocation goes on to Send,
\* the ledger still unchanged by the lookup.
C19_DuplicateIsSuppressedUnlessReadFailed ==
    [][\A l \in LoopIds :
         (pc[l] = "ShouldAlert" /\ Steps(l) /\ alerts[NameOf(l)] = resultHash[l])
         => /\ alerts' = alerts
            /\ delivered' = delivered
            /\ consecutiveFailures'[l] = 0 /\ backoffMultiplier'[l] = 1
            /\ \/ pc'[l] = "interval"
               \/ backend = "sqlite" /\ readFailed'[l] /\ pc'[l] = "Send"]_vars

\* C19 witness: a check returns again the alerting result that was
\* delivered and whose hash is recorded, and ShouldAlert is about to be asked
C19_Witness ==
    \E l \in Launched :
        /\ pc[l] = "ShouldAlert"
        /\ alerts[NameOf(l)] = resultHash[l]
        /\ result[l] \in delivered[NameOf(l)]
        /\ executed[l]

\* C20, as stated: a MarkAlerted that fails after a successful Send ends
\* the invocation like any other, the loop going on to its wait, the alert
\* delivered and the ledger as it was.  The condition delivered last is
\* delivered again only after such a failure, once for each failure; when
\* no MarkAlerted failure is outstanding its further occurrences are
\* suppressed.
C20_OneDuplicatePerMarkFailure ==
    [][\A l \in LoopIds :
         /\ (pc[l] = "MarkAlerted" /\ lastErr'[l] = "MarkAlerted")
              => /\ pc'[l] = "interval"
                 /\ alerts' = alerts
                 /\ result[l] \in delivered'[NameOf(l)]
         /\ (SendAccepted(l) /\ result[l] = lastDelivered[NameOf(l)])
              => markFailed[NameOf(l)] /\ ~markFailed'[NameOf(l)]
         /\ (pc[l] = "ShouldAlert" /\ Steps(l)
                /\ result[l] = lastDelivered[NameOf(l)] /\ ~markFailed[NameOf(l)])
              => pc'[l] = "interval"]_vars

\* C20, amended: as C20 for the invocations whose ShouldAlert read
\* succeeds; a failed read of the durable backend is a second way for the
\* condition delivered last to be delivered again.
C20_OneDuplicatePerMarkFailureOrFailedRead ==
    [][\A l \in LoopIds :
         /\ (pc[l] = "MarkAlerted" /\ lastErr'[l] = "MarkAlerted")
              => /\ pc'[l] = "interval"
                 /\ alerts' = alerts
                 /\ result[l] \in delivered'[NameOf(l)]
         /\ (SendAccepted(l) /\ result[l] = lastDelivered[NameOf(l)])
              => /\ markFailed[NameOf(l)] \/ readFailed[l]
                 /\ ~markFailed'[NameOf(l)]
         /\ (pc[l] = "ShouldAlert" /\ Steps(l)
                /\ result[l] = lastDelivered[NameOf(l)] /\ ~markFailed[NameOf(l)])
              => pc'[l] = "interval" \/ readFailed'[l]]_vars

\* C20 witness: MarkAlerted failed after a delivery, the same result has
\* come again, its read succeeded, and it is handed to the notifier
C20_Witness ==
    \E l \in Launched :
        /\ pc[l] = "Send"
        /\ result[l] = lastDelivered[NameOf(l)]
        /\ markFailed[NameOf(l)]
        /\ ~readFailed[l]

\* the k-th smallest element of a set of positions
Kth(S, k) == CHOOSE i \in S : Cardinality({ j \in S : j < i }) = k - 1

\* C21: Multi.Send calls every configured transport once, in order,
\* whichever of them fail; the errors it collects are one entry for each
\* transport that failed, in order, and none for one that succeeded; it
\* returns nil exactly when no transport failed.
C21_MultiSendTriesAll ==
    /\ \A failing \in SUBSET (1 .. Len(transports)) :
         LET report == MultiSend(transports, failing)
         IN  /\ report.calls = transports
             /\ Len(report.errs) = Cardinality(failing)
             /\ \A k \in 1 .. Len(report.errs) :
                  report.errs[k] = transports[Kth(failing, k)]
             /\ (report.errs = << >>) <=> (failing = {})
    /\ lastSend.calls \in {<< >>, transports}
    /\ \A l \in Launched :
         (pc[l] = "interval" /\ lastErr[l] = "Send") => lastSend.errs # << >>

\* C21 witness: the first and the last of three transports have failed,
\* all three were called, and the scheduler was given the combined error
C21_Witness ==
    \E l \in Launched :
        /\ pc[l] = "interval"
        /\ lastErr[l] = "Send"
        /\ lastSend.calls = << "ntfy", "twilio", "sendgrid" >>
        /\ lastSend.errs = << "ntfy", "sendgrid" >>

\* C22, as stated: whenever an execution has returned without error the
\* wait before the next execution of the check is its configured interval,
\* whatever positive interval was configured.
C22_WaitIsConfiguredInterval ==
    \A l \in Launched :
        (pc[l] = "select" /\ consecutiveFailures[l] = 0)
            => interval[l] = CheckOf(l).Interval

\* C23: the backoff state follows the outcome of c.Run alone.  When an
\* invocation whose c.Run succeeded returns, after a failed Send, a failed
\* MarkAlerted, a failed Clear or a suppressed duplicate as after a
\* delivery, the state is (0, 1), and the wait chosen next is the one of
\* multiplier 1; the counter is positive only after c.Run returned an error.
C23_OnlyRunErrorsBackOff ==
    \A l \in Launched :
        /\ (pc[l] = "interval" /\ lastErr[l] \in {"Send", "MarkAlerted", "Clear", "nil"})
             => consecutiveFailures[l] = 0 /\ backoffMultiplier[l] = 1
        /\ (pc[l] = "interval" /\ lastErr[l] = "Run") => consecutiveFailures[l] >= 1
        /\ (pc[l] = "select" /\ failedSend[l] # NoResult)
             => interval[l] = NextInterval(CheckOf(l).Interval, 1)

\* C23 witness: MarkAlerted has failed after a delivery and the invocation
\* has returned
C23_Witness ==
    \E l \in Launched :
        /\ pc[l] = "interval"
        /\ lastErr[l] = "MarkAlerted"
        /\ markFailed[NameOf(l)]

\* the hashes of the alerting results of the checks of the model
Hashes ==
    { Hash(r.Title, r.Message) :
        r \in { x \in UNION { c.Run : c \in SingleCatalog \cup {DiskCheck} } :
                   x.ShouldAlert } }

\* C24: without database errors the two backends agree.  On every ledger
\* reached from the empty one by MarkAlerted and Clear calls, for every
\* identifier and hash, Memory and SQLite return the same ShouldAlert and
\* their MarkAlerted and their Clear lead to the same ledger, so they
\* agree after every sequence of calls.
C24_BackendsAgree ==
    \A n \in Names :
        /\ MemoryClear(alerts, n) = SQLiteClear(alerts, n, FALSE)
        /\ \A h \in Hashes :
             /\ MemoryShouldAlert(alerts, n, h) = SQLiteShouldAlert(alerts, n, h, FALSE)
             /\ MemoryMarkAlerted(alerts, n, h) = SQLiteMarkAlerted(alerts, n, h, FALSE)

\* C24 witness: on the durable backend the record of a check has been
\* written twice, by two MarkAlerted calls with different hashes
C24_Witness ==
    \E n \in Names :
        /\ backend = "sqlite"
        /\ Cardinality(delivered[n]) = 2
        /\ alerts[n] = Hash(lastDelivered[n].Title, lastDelivered[n].Message)

\* C25, as stated: the wait chosen after a failed execution is positive
\* and not shorter than min(baseInterval, 1 hour), the wait after a
\* success, however long the streak of failures.
C25_NoTightLoopAfterFailure ==
    \A l \in Launched :
        (pc[l] = "select" /\ consecutiveFailures[l] >= 1) =>
            /\ interval[l] > 0
            /\ interval[l] >= Min(CheckOf(l).Interval, maxBackoffDuration)

\* C26, as stated: an alerting result whose title or message differs from
\* those of the result delivered and recorded last is another condition:
\* it is handed to the notifier, not suppressed.
C26_DifferentPairsAreDistinct ==
    [][\A l \in LoopIds :
         (/\ pc[l] = "ShouldAlert" /\ Steps(l)
          /\ lastDelivered[NameOf(l)].ShouldAlert
          /\ ~SameCondition(lastDelivered[NameOf(l)], result[l])
          /\ ~markFailed[NameOf(l)])
         => pc'[l] = "Send"]_vars

\* C27, as stated: once Stop has been called, after one Start or several,
\* the context of every timing loop that was launched is cancelled, so
\* that no loop is left running with a context Stop cannot cancel, and
\* Stop returns only when all of them have exited.
C27_StopCancelsEveryLoop ==
    /\ hostPc \in {"stopping", "stopped"}
         => \A l \in Launched : loopCtx[l] \in ctxDone
    /\ hostPc = "stopped" => \A l \in Launched : pc[l] = "exited"

\* C28, as stated: after the cancellation a loop starts at most one more
\* execution, whatever the wait it has computed, zero included.  A loop
\* that enters its select after the cancellation with a positive wait
\* exits from it, and no loop starts an execution from a select entered
\* after the cancellation when the execution before was started so too
\* (that would be its second execution after the cancellation at least).
C28_AtMostOneRunAfterCancel ==
    [][\A l \in LoopIds :
         /\ (pc[l] = "select" /\ Steps(l) /\ loopCtx[l] \in ctxDone
                /\ ~timerLive[l] /\ interval[l] > 0)
              => pc'[l] = "exited"
         /\ (pc[l] = "select" /\ pc'[l] = "Run" /\ loopCtx[l] \in ctxDone
                /\ ~timerLive[l])
              => ~lateRuns[l]]_vars

\* C29, as stated: however the timing loops interleave, also the loops of
\* two checks registered with one identifier, the notifier is not given a
\* condition whose hash is recorded for the identifier, nor the condition
\* it was given last for the identifier with no clear since.
C29_NoDuplicateUnderInterleaving ==
    [][\A l \in LoopIds :
         SendAccepted(l) =>
            /\ alerts[NameOf(l)] # resultHash[l]
            /\ lastDelivered[NameOf(l)] # result[l]]_vars

\* C30, as stated: with the fan-out notifier, while one condition of a
\* check stays unresolved (no clear, and no other condition accepted by a
\* transport since), a transport that has accepted the condition is not
\* sent it again, also when other transports of the composite fail.
C30_TransportGetsConditionOnce ==
    [][\A l \in LoopIds :
         (/\ pc[l] = "Send" /\ Steps(l)
          /\ \A p \in accepted[NameOf(l)] : p[2] = result[l])
         => \A i \in 1 .. Len(lastSend'.calls) :
               << lastSend'.calls[i], result[l] >> \notin accepted[NameOf(l)]]_vars

====
